---- MODULE Spec2Model ----
(***************************************************************************)
(* A model of package postgrestest (postgrestest.go): New, DB.Close and    *)
(* runWithTimeout, together with the parts of their environment they act   *)
(* on: the server's schema catalog, the database/sql connections, the      *)
(* goroutines started by runWithTimeout, the timers and the process        *)
(* environment variables.                                                  *)
(*                                                                         *)
(* Environment assumptions:                                                *)
(*  - a statement that returns an error has had no effect on the server;   *)
(*  - CREATE SCHEMA fails when the schema exists, DROP SCHEMA fails when   *)
(*    it does not, and either may fail for an unrelated reason;            *)
(*  - sql.DB.Exec on a closed sql.DB fails without reaching the server;    *)
(*  - sql.DB.Close always leaves the sql.DB closed, whatever it returns;   *)
(*  - a statement or a close may block for ever (its step is never taken); *)
(*  - a timer may fire at any moment after it was started.                 *)
(*  - a select with both cases ready takes either.                         *)
(*                                                                         *)
(* Spec has one test goroutine, which makes its calls one after the other, *)
(* and a random source that never returns the same name twice.             *)
(* AnyNameSpec lets the random source repeat a name, PairSpec has two test *)
(* goroutines, and NilSpec lets the test replace the field DB of a handle  *)
(* with nil.                                                               *)
(***************************************************************************)
EXTENDS Naturals, Sequences, FiniteSets, Bags

\* ------------------------------------------------------------------ bounds
MaxCalls == 3      \* calls of New and Close in a run
MaxNames == 2      \* schema names the random source can produce

AllNames == <<"go_test_01", "go_test_02", "go_test_03", "go_test_04">>
Names    == {AllNames[i] : i \in 1..MaxNames}

Callers  == {"t1", "t2"}      \* test goroutines that call New and Close
Solo     == {"t1"}

\* ------------------------------------------------------------------ errors
\* An error is the sequence of its messages, outermost first; nil is <<>>.
\* A message is a record [msg, what, schema].
Nil == <<>>

Msg(m, w, s) == [msg |-> m, what |-> w, schema |-> s]

\* errgo.Newf(text)
Newf(m) == <<m>>

\* errgo.Notef(err, text): a new error whose cause is err
Notef(err, m) == <<m>> \o err

ErrDisabled    == Newf(Msg("postgres testing is disabled", "", ""))
ErrDriver      == Newf(Msg("sql: unknown driver", "", ""))
ErrDBClosed    == Newf(Msg("sql: database is closed", "", ""))
ErrPq          == Newf(Msg("pq: statement failed", "", ""))
ErrConnClose   == Newf(Msg("pq: close failed", "", ""))

\* the "what" arguments of runWithTimeout
WhatCreate     == [what |-> "create schema", schema |-> ""]
WhatCleanup    == [what |-> "close test db after failing to create schema", schema |-> ""]
WhatDrop(s)    == [what |-> "drop test schema", schema |-> s]
WhatClose      == [what |-> "close test db", schema |-> ""]

VARIABLES
    env,        \* [disable, keep]: PGTESTDISABLE, PGTESTKEEPDB are non-empty
    schemas,    \* the schemas in the server's catalog (pg_namespace)
    conns,      \* conns[i]: state of the i-th sql.DB opened by New
    handles,    \* handles[i]: the i-th *DB returned by New, [DB, schema]
    drawn,      \* the names randomSchemaName has returned so far
    calls,      \* number of calls of New and Close so far
    pc,         \* pc[c]: where caller c is
    loc,        \* loc[c]: the locals of the call caller c is in, and the
                \* environment the call was made in
    timer,      \* timer[c]: the time.After timer of c's runWithTimeout
    ret,        \* ret[c]: what c's last call returned, at which source line,
                \* which call of the run it was, and what the call before it
                \* returned
    tasks,      \* the bag of goroutines of runWithTimeout running a statement
                \* or waited for by their caller
    blocked,    \* number of goroutines blocked for ever in "done <- err"
    stderr,     \* the schema names printed by the retention path
    owner,      \* owner[i]: the caller New returned handles[i] to
    issued,     \* the operations started on connections so far:
                \* [kind, conn, schema]
    timeouts    \* number of times a select took its timer case so far

vars == <<env, schemas, conns, handles, drawn, calls, pc, loc, timer,
          ret, tasks, blocked, stderr, owner, issued, timeouts>>

NoEnv == [disable |-> FALSE, keep |-> FALSE]
NoLoc == [name |-> "", db |-> 0, h |-> 0, err |-> Nil, env |-> NoEnv]
NoCall == [op |-> "none", h |-> 0, line |-> 0, ok |-> TRUE]
NoRet == [op |-> "none", h |-> 0, err |-> Nil, line |-> 0, call |-> 0,
          prev |-> NoCall]

\* What a later call remembers of the call that returned r.
Brief(r) == [op |-> r.op, h |-> r.h, line |-> r.line, ok |-> r.err = Nil]

\* op returned err for handle h at source line n.
Ret(op, h, err, n) ==
    [op |-> op, h |-> h, err |-> err, line |-> n, call |-> 0, prev |-> NoCall]

Init ==
    /\ env = NoEnv
    /\ schemas = {}
    /\ conns = <<>>
    /\ handles = <<>>
    /\ drawn = {}
    /\ calls = 0
    /\ pc = [c \in Callers |-> "idle"]
    /\ loc = [c \in Callers |-> NoLoc]
    /\ timer = [c \in Callers |-> "off"]
    /\ ret = [c \in Callers |-> NoRet]
    /\ tasks = EmptyBag
    /\ blocked = 0
    /\ stderr = <<>>
    /\ owner = <<>>
    /\ issued = {}
    /\ timeouts = 0

\* ---------------------------------------------------------- runWithTimeout
\* The goroutine "go toRun(done)": it runs its statement ("run"), then
\* blocks sending the result on the unbuffered channel done ("send"), and
\* exits when the send is received.  rcv is the caller in the select on done,
\* or "" once that caller has left the select: nobody will ever receive.
\* cap is the variable err captured by the closure, out what its statement
\* returned, res what it sends.
Nobody == ""

Task(c, kind, conn, schema, cap) ==
    [rcv |-> c, kind |-> kind, conn |-> conn, schema |-> schema,
     pc |-> "run", out |-> Nil, res |-> Nil, cap |-> cap]

One(t) == SetToBag({t})

\* The goroutine caller c is waiting for.
Waited(c) == {t \in BagToSet(tasks) : t.rcv = c}

\* case err := <-done: the goroutine is blocked in its send.
DoneReady(c) == {t \in Waited(c) : t.pc = "send"}

\* A select whose timer case is never ready.
TimerNever(c) == FALSE

\* A select whose timer case is ready at once.
TimerAtOnce(c) == TRUE

\* case <-time.After(timeout): the timer has fired.
TimerReady(c) == timer[c] = "fired"

\* RecvResult without the wrapping of err at lines 142-144.
RecvResultSwallowed(err, w) == Nil

\* RecvResult without the context: err is returned as it was received.
RecvResultUnwrapped(err, w) == err

\* The value returned by the first case of the select.
RecvResult(err, w) ==
    IF err # Nil THEN Notef(err, Msg("cannot", w.what, w.schema)) ELSE Nil

\* TimeoutResult without the error: a timeout is reported as success.
TimeoutResultNil(w) == Nil

\* The value returned by the second case of the select.
TimeoutResult(w) == Newf(Msg("timed out trying to", w.what, w.schema))

\* Received with a goroutine that sends on done a second time after its
\* send was received, and blocks there for ever.
ReceivedSendsAgain(t) ==
    [tasks |-> tasks (-) One(t), blocked |-> blocked + 1, timeouts |-> timeouts]

\* The goroutines left when the first case is taken: t has sent and exits.
Received(t) ==
    [tasks |-> tasks (-) One(t), blocked |-> blocked, timeouts |-> timeouts]

\* The goroutines left when the second case is taken: runWithTimeout returns
\* and nobody receives from done any more, so the goroutine of c is left
\* running, or blocked for ever in its send.
Abandoned(c) ==
    LET t == CHOOSE t \in Waited(c) : TRUE IN
    IF t.pc = "send"
    THEN [tasks |-> tasks (-) One(t), blocked |-> blocked + 1,
          timeouts |-> timeouts + 1]
    ELSE [tasks |-> (tasks (-) One(t)) (+) One([t EXCEPT !.rcv = Nobody]),
          blocked |-> blocked, timeouts |-> timeouts + 1]

\* make(chan error); go toRun(done); select: caller c blocks at `at` with
\* locals l.  g: the goroutines there were.
Start(c, kind, conn, schema, cap, g, at, l) ==
    /\ tasks' = g.tasks (+) One(Task(c, kind, conn, schema, cap))
    /\ blocked' = g.blocked
    /\ timeouts' = g.timeouts
    /\ issued' = issued \cup {[kind |-> kind, conn |-> conn, schema |-> schema]}
    /\ timer' = [timer EXCEPT ![c] = "armed"]
    /\ loc' = [loc EXCEPT ![c] = l]
    /\ pc' = [pc EXCEPT ![c] = at]

\* The call caller c is in returns r; its frame is gone.  g: the goroutines
\* it leaves.
Return(c, r, g) ==
    /\ ret' = [ret EXCEPT ![c] = [r EXCEPT !.call = calls', !.prev = Brief(ret[c])]]
    /\ pc' = [pc EXCEPT ![c] = "idle"]
    /\ loc' = [loc EXCEPT ![c] = NoLoc]
    /\ timer' = [timer EXCEPT ![c] = "off"]
    /\ tasks' = g.tasks
    /\ blocked' = g.blocked
    /\ timeouts' = g.timeouts
    /\ issued' = issued

\* The goroutines as they are.
Same == [tasks |-> tasks, blocked |-> blocked, timeouts |-> timeouts]

\* The timer of c's select fires.
TimerFire(c) ==
    /\ pc[c] # "idle"
    /\ timer[c] = "armed"
    /\ timer' = [timer EXCEPT ![c] = "fired"]
    /\ UNCHANGED <<env, schemas, conns, handles, drawn, calls, pc, loc,
                   ret, tasks, blocked, stderr, owner, issued,
                   timeouts>>

\* ------------------------------------------------------------- environment
\* PGTESTDISABLE is not looked at.
PgTestDisableIgnored == FALSE

\* os.Getenv("PGTESTDISABLE") != ""
PgTestDisable == env.disable

\* PGTESTKEEPDB is not looked at.
PgTestKeepDBIgnored == FALSE

\* os.Getenv("PGTESTKEEPDB") != ""
PgTestKeepDB == env.keep

\* os.Setenv by the test that is caller c, between its calls.
SetEnv(c, e) ==
    /\ pc[c] = "idle"
    /\ e # env
    /\ env' = e
    /\ UNCHANGED <<schemas, conns, handles, drawn, calls, pc, loc, timer,
                   ret, tasks, blocked, stderr, owner, issued,
                   timeouts>>

\* The names randomSchemaName can return.
randomSchemaName == Names

\* ---------------------------------------------------------------------- New
MsgCannotCreate(name) == Msg("cannot create test database", "", name)

\* New up to its first select: the disable check, the name, sql.Open, and
\* the start of runWithTimeout("create schema").  openOk: sql.Open succeeds.
NewCall(c, name, openOk) ==
    /\ pc[c] = "idle"
    /\ calls < MaxCalls
    /\ calls' = calls + 1
    /\ UNCHANGED <<env, schemas, handles, stderr, owner>>
    /\ IF PgTestDisable
       THEN /\ Return(c, Ret("New", 0, ErrDisabled, 68), Same)
            /\ UNCHANGED <<conns, drawn>>
       ELSE /\ drawn' = drawn \cup {name}
            /\ IF ~openOk
               THEN /\ Return(c, Ret("New", 0,
                                      Notef(ErrDriver,
                                            Msg("cannot open database", "", "")),
                                      73), Same)
                    /\ UNCHANGED conns
               ELSE /\ conns' = Append(conns, "open")
                    /\ UNCHANGED ret
                    /\ Start(c, "create", Len(conns) + 1, name, Nil, Same,
                             "create", [NoLoc EXCEPT !.name = name,
                                                     !.db = Len(conns) + 1,
                                                     !.env = env])

\* AfterCreate without the cleanup of lines 81-87: the error is returned at
\* once.
AfterCreateNoCleanup(c, err, g) ==
    IF err # Nil
    THEN /\ Return(c, Ret("New", 0,
                          Notef(err, Msg("cannot create test database", "",
                                         loc[c].name)), 88), g)
         /\ UNCHANGED <<handles, owner>>
    ELSE /\ handles' = Append(handles, [DB |-> loc[c].db, schema |-> loc[c].name])
         /\ owner' = Append(owner, c)
         /\ Return(c, Ret("New", Len(handles) + 1, Nil, 90), g)

\* AfterCreate without the check of err at line 80: a handle is returned
\* whatever runWithTimeout returned.
AfterCreateUnchecked(c, err, g) ==
    /\ handles' = Append(handles, [DB |-> loc[c].db, schema |-> loc[c].name])
    /\ owner' = Append(owner, c)
    /\ Return(c, Ret("New", Len(handles) + 1, Nil, 90), g)

\* New after runWithTimeout("create schema") returned err, up to its return
\* or its second select.
AfterCreate(c, err, g) ==
    IF err # Nil
    THEN /\ Start(c, "cleanup", loc[c].db, loc[c].name, err, g, "cleanup",
                  [loc[c] EXCEPT !.err = err])
         /\ UNCHANGED <<handles, owner, ret>>
    ELSE /\ handles' = Append(handles, [DB |-> loc[c].db, schema |-> loc[c].name])
         /\ owner' = Append(owner, c)
         /\ Return(c, Ret("New", Len(handles) + 1, Nil, 90), g)

\* The select of runWithTimeout("create schema") receives from done.
CreateDone(c) ==
    /\ pc[c] = "create"
    /\ UNCHANGED <<env, schemas, conns, drawn, calls, stderr>>
    /\ \E t \in DoneReady(c) :
          AfterCreate(c, RecvResult(t.res, WhatCreate), Received(t))

\* The select of runWithTimeout("create schema") takes the timer case.
CreateTimeout(c) ==
    /\ pc[c] = "create"
    /\ UNCHANGED <<env, schemas, conns, drawn, calls, stderr>>
    /\ TimerReady(c)
    /\ AfterCreate(c, TimeoutResult(WhatCreate), Abandoned(c))

\* New after the cleanup runWithTimeout returned errClose.
AfterCleanup(c, errClose, g) ==
    /\ UNCHANGED <<env, schemas, conns, handles, drawn, calls, stderr,
                   owner>>
    /\ IF errClose # Nil
       THEN Return(c, Ret("New", 0,
                           Notef(errClose, MsgCannotCreate(loc[c].name)), 86), g)
       ELSE Return(c, Ret("New", 0,
                           Notef(loc[c].err, MsgCannotCreate(loc[c].name)), 88), g)

\* The select of the cleanup runWithTimeout receives from done.
CleanupDone(c) ==
    /\ pc[c] = "cleanup"
    /\ \E t \in DoneReady(c) :
          AfterCleanup(c, RecvResult(t.res, WhatCleanup), Received(t))

\* The select of the cleanup runWithTimeout takes the timer case.
CleanupTimeout(c) ==
    /\ pc[c] = "cleanup"
    /\ TimerReady(c)
    /\ AfterCleanup(c, TimeoutResult(WhatCleanup), Abandoned(c))

\* -------------------------------------------------------------------- Close
\* CloseCall with the retention path taken before the nil check.
CloseCallKeepFirst(c, h) ==
    /\ pc[c] = "idle"
    /\ h \in 1..Len(handles)
    /\ owner[h] = c
    /\ calls < MaxCalls
    /\ calls' = calls + 1
    /\ UNCHANGED <<env, schemas, conns, handles, drawn, owner>>
    /\ IF PgTestKeepDB
       THEN /\ stderr' = Append(stderr, handles[h].schema)
            /\ Return(c, Ret("Close", h, Nil, 109), Same)
       ELSE IF handles[h].DB = 0
       THEN /\ Return(c, Ret("Close", h, Nil, 102), Same)
            /\ UNCHANGED stderr
       ELSE /\ UNCHANGED <<ret, stderr>>
            /\ Start(c, "drop", handles[h].DB, handles[h].schema, Nil, Same,
                     "drop", [NoLoc EXCEPT !.h = h, !.env = env])

\* CloseCall with the connection close started at once in a goroutine of its
\* own, beside the DROP.
CloseCallBoth(c, h) ==
    /\ pc[c] = "idle"
    /\ h \in 1..Len(handles)
    /\ owner[h] = c
    /\ calls < MaxCalls
    /\ calls' = calls + 1
    /\ UNCHANGED <<env, schemas, conns, handles, drawn, owner>>
    /\ IF handles[h].DB = 0
       THEN /\ Return(c, Ret("Close", h, Nil, 102), Same)
            /\ UNCHANGED stderr
       ELSE IF PgTestKeepDB
       THEN /\ stderr' = Append(stderr, handles[h].schema)
            /\ Return(c, Ret("Close", h, Nil, 109), Same)
       ELSE /\ UNCHANGED <<ret, stderr>>
            /\ Start(c, "drop", handles[h].DB, handles[h].schema, Nil,
                     [Same EXCEPT !.tasks =
                         tasks (+) One(Task(c, "close", handles[h].DB,
                                            handles[h].schema, Nil))],
                     "drop", [NoLoc EXCEPT !.h = h, !.env = env])

\* CloseCall without the DROP: Close goes straight to
\* runWithTimeout("close test db").
CloseCallNoDrop(c, h) ==
    /\ pc[c] = "idle"
    /\ h \in 1..Len(handles)
    /\ owner[h] = c
    /\ calls < MaxCalls
    /\ calls' = calls + 1
    /\ UNCHANGED <<env, schemas, conns, handles, drawn, owner>>
    /\ IF handles[h].DB = 0
       THEN /\ Return(c, Ret("Close", h, Nil, 102), Same)
            /\ UNCHANGED stderr
       ELSE IF PgTestKeepDB
       THEN /\ stderr' = Append(stderr, handles[h].schema)
            /\ Return(c, Ret("Close", h, Nil, 109), Same)
       ELSE /\ UNCHANGED <<ret, stderr>>
            /\ Start(c, "close", handles[h].DB, handles[h].schema, Nil, Same,
                     "close", [NoLoc EXCEPT !.h = h, !.env = env])

\* Close up to its first select: the nil check, the retention path, and the
\* start of runWithTimeout("drop test schema ...").
CloseCall(c, h) ==
    /\ pc[c] = "idle"
    /\ h \in 1..Len(handles)
    /\ owner[h] = c
    /\ calls < MaxCalls
    /\ calls' = calls + 1
    /\ UNCHANGED <<env, schemas, conns, handles, drawn, owner>>
    /\ IF handles[h].DB = 0
       THEN /\ Return(c, Ret("Close", h, Nil, 102), Same)
            /\ UNCHANGED stderr
       ELSE IF PgTestKeepDB
       THEN /\ stderr' = Append(stderr, handles[h].schema)
            /\ Return(c, Ret("Close", h, Nil, 109), Same)
       ELSE /\ UNCHANGED <<ret, stderr>>
            /\ Start(c, "drop", handles[h].DB, handles[h].schema, Nil, Same,
                     "drop", [NoLoc EXCEPT !.h = h, !.env = env])

\* AfterDrop without the check of err at lines 119-121.
AfterDropUnchecked(c, err, g) ==
    LET h == loc[c].h IN
    /\ UNCHANGED <<env, schemas, conns, handles, drawn, calls, stderr,
                   owner>>
    /\ Start(c, "close", handles[h].DB, handles[h].schema, Nil, g,
             "close", loc[c])
    /\ UNCHANGED ret

\* Close after runWithTimeout("drop test schema ...") returned err.
AfterDrop(c, err, g) ==
    LET h == loc[c].h IN
    /\ UNCHANGED <<env, schemas, conns, handles, drawn, calls, stderr,
                   owner>>
    /\ IF err # Nil
       THEN Return(c, Ret("Close", h, err, 120), g)
       ELSE /\ Start(c, "close", handles[h].DB, handles[h].schema, Nil, g,
                     "close", loc[c])
            /\ UNCHANGED ret

\* The select of runWithTimeout("drop test schema ...") receives from done.
DropDone(c) ==
    /\ pc[c] = "drop"
    /\ \E t \in DoneReady(c) :
          AfterDrop(c, RecvResult(t.res, WhatDrop(handles[loc[c].h].schema)),
                    Received(t))

\* The select of runWithTimeout("drop test schema ...") takes the timer case.
DropTimeout(c) ==
    /\ pc[c] = "drop"
    /\ TimerReady(c)
    /\ AfterDrop(c, TimeoutResult(WhatDrop(handles[loc[c].h].schema)),
                 Abandoned(c))

\* AfterClose with the connection field of the handle set to nil on success.
AfterCloseNulling(c, err, g) ==
    /\ UNCHANGED <<env, schemas, conns, drawn, calls, stderr, owner>>
    /\ IF err # Nil
       THEN /\ Return(c, Ret("Close", loc[c].h, err, 128), g)
            /\ UNCHANGED handles
       ELSE /\ Return(c, Ret("Close", loc[c].h, Nil, 131), g)
            /\ handles' = [handles EXCEPT ![loc[c].h].DB = 0]

\* Close after runWithTimeout("close test db") returned err.
AfterClose(c, err, g) ==
    /\ UNCHANGED <<env, schemas, conns, handles, drawn, calls, stderr,
                   owner>>
    /\ IF err # Nil
       THEN Return(c, Ret("Close", loc[c].h, err, 128), g)
       ELSE Return(c, Ret("Close", loc[c].h, Nil, 131), g)

\* The select of runWithTimeout("close test db") receives from done.
CloseDone(c) ==
    /\ pc[c] = "close"
    /\ \E t \in DoneReady(c) :
          AfterClose(c, RecvResult(t.res, WhatClose), Received(t))

\* The select of runWithTimeout("close test db") takes the timer case.
CloseTimeout(c) ==
    /\ pc[c] = "close"
    /\ TimerReady(c)
    /\ AfterClose(c, TimeoutResult(WhatClose), Abandoned(c))

\* The test that is caller c replaces the field DB of its handle h with nil
\* between its calls ("someone replaced our DB with nil"), no goroutine of
\* an earlier call being left running on the connection.
ReplaceDB(c, h) ==
    /\ pc[c] = "idle"
    /\ h \in 1..Len(handles)
    /\ owner[h] = c
    /\ handles[h].DB # 0
    /\ ~\E t \in BagToSet(tasks) : t.conn = handles[h].DB /\ t.pc = "run"
    /\ handles' = [handles EXCEPT ![h].DB = 0]
    /\ UNCHANGED <<env, schemas, conns, drawn, calls, pc, loc, timer, ret,
                   tasks, blocked, stderr, owner, issued, timeouts>>

\* ------------------------------------------------- the goroutines' statements
Running == {t \in BagToSet(tasks) : t.pc = "run"}

\* The goroutine t has run its statement, which returned out, and executes
\* "done <- res": it waits for its receiver, or blocks for ever when there
\* is none.
Sending(t, out, res) ==
    IF t.rcv = Nobody
    THEN /\ tasks' = tasks (-) One(t)
         /\ blocked' = blocked + 1
    ELSE /\ tasks' = (tasks (-) One(t))
                       (+) One([t EXCEPT !.pc = "send", !.out = out, !.res = res])
         /\ blocked' = blocked

\* sql.DB.Exec of a statement on connection i: it fails at once on a closed
\* sql.DB; otherwise the server runs it.  ok: the server can run it.
Exec(i, ok) ==
    IF conns[i] = "closed" THEN ErrDBClosed
    ELSE IF ~ok THEN ErrPq
    ELSE Nil

\* ExecCreate with the statement CREATE SCHEMA IF NOT EXISTS: an existing
\* schema is no error.
ExecCreateIfNotExists(t, fail) ==
    LET err == Exec(t.conn, ~fail) IN
    /\ t.kind = "create"
    /\ schemas' = IF err = Nil THEN schemas \cup {t.schema} ELSE schemas
    /\ Sending(t, err, err)
    /\ UNCHANGED <<env, conns, handles, drawn, calls, pc, loc, timer,
                   ret, stderr, owner, issued,
                   timeouts>>

\* The goroutine of New: db.Exec(`CREATE SCHEMA ` + name); done <- err.
\* fail: the server refuses the statement for a reason of its own.
ExecCreate(t, fail) ==
    LET err == Exec(t.conn, ~fail /\ t.schema \notin schemas) IN
    /\ t.kind = "create"
    /\ schemas' = IF err = Nil THEN schemas \cup {t.schema} ELSE schemas
    /\ Sending(t, err, err)
    /\ UNCHANGED <<env, conns, handles, drawn, calls, pc, loc, timer,
                   ret, stderr, owner, issued,
                   timeouts>>

\* ExecDrop with a statement that drops every test schema, not the one of
\* its handle alone.
ExecDropAll(t, fail) ==
    LET err == Exec(t.conn, ~fail /\ t.schema \in schemas) IN
    /\ t.kind = "drop"
    /\ schemas' = IF err = Nil THEN {} ELSE schemas
    /\ Sending(t, err, err)
    /\ UNCHANGED <<env, conns, handles, drawn, calls, pc, loc, timer,
                   ret, stderr, owner, issued, timeouts>>

\* The goroutine of Close: pg.DB.Exec("DROP SCHEMA ... CASCADE;"); done <- err.
ExecDrop(t, fail) ==
    LET err == Exec(t.conn, ~fail /\ t.schema \in schemas) IN
    /\ t.kind = "drop"
    /\ schemas' = IF err = Nil THEN schemas \ {t.schema} ELSE schemas
    /\ Sending(t, err, err)
    /\ UNCHANGED <<env, conns, handles, drawn, calls, pc, loc, timer,
                   ret, stderr, owner, issued,
                   timeouts>>

\* sql.DB.Close on connection i; fail: closing the driver connection fails.
DBClose(i, fail) ==
    IF fail /\ conns[i] = "open" THEN ErrConnClose ELSE Nil

\* The goroutine of Close: err := pg.DB.Close(); done <- err.
ExecClose(t, fail) ==
    /\ t.kind = "close"
    /\ conns' = [conns EXCEPT ![t.conn] = "closed"]
    /\ Sending(t, DBClose(t.conn, fail), DBClose(t.conn, fail))
    /\ UNCHANGED <<env, schemas, handles, drawn, calls, pc, loc, timer,
                   ret, stderr, owner, issued,
                   timeouts>>

\* The goroutine of New's failure path: db.Close(); done <- err, where err
\* is New's variable, which holds the creation error; what db.Close()
\* returns is discarded.
ExecCleanup(t, fail) ==
    /\ t.kind = "cleanup"
    /\ conns' = [conns EXCEPT ![t.conn] = "closed"]
    /\ Sending(t, DBClose(t.conn, fail), t.cap)
    /\ UNCHANGED <<env, schemas, handles, drawn, calls, pc, loc, timer,
                   ret, stderr, owner, issued,
                   timeouts>>

\* ----------------------------------------------------------- specifications
Envs == [disable : BOOLEAN, keep : BOOLEAN]

\* A step of the test goroutine, the random source never repeating a name,
\* or a step of a goroutine started by runWithTimeout.
Next ==
    \/ \E c \in Solo, e \in Envs : SetEnv(c, e)
    \/ \E c \in Solo, name \in randomSchemaName \ drawn, openOk \in BOOLEAN :
          NewCall(c, name, openOk)
    \/ \E c \in Solo : CreateDone(c)
    \/ \E c \in Solo : CreateTimeout(c)
    \/ \E c \in Solo : CleanupDone(c)
    \/ \E c \in Solo : CleanupTimeout(c)
    \/ \E c \in Solo, h \in 1..Len(handles) : CloseCall(c, h)
    \/ \E c \in Solo : DropDone(c)
    \/ \E c \in Solo : DropTimeout(c)
    \/ \E c \in Solo : CloseDone(c)
    \/ \E c \in Solo : CloseTimeout(c)
    \/ \E c \in Solo : TimerFire(c)
    \/ \E t \in Running, fail \in BOOLEAN : ExecCreate(t, fail)
    \/ \E t \in Running, fail \in BOOLEAN : ExecDrop(t, fail)
    \/ \E t \in Running, fail \in BOOLEAN : ExecClose(t, fail)
    \/ \E t \in Running, fail \in BOOLEAN : ExecCleanup(t, fail)

Spec == Init /\ [][Next]_vars

\* The select of caller c is resolved.
Select(c) ==
    \/ CreateDone(c) \/ CreateTimeout(c)
    \/ CleanupDone(c) \/ CleanupTimeout(c)
    \/ DropDone(c) \/ DropTimeout(c)
    \/ CloseDone(c) \/ CloseTimeout(c)

\* The timers fire, and a caller whose select has a ready case goes on.
\* Nothing makes a statement or a connection close on the server finish.
FairSpec ==
    /\ Spec
    /\ \A c \in Solo : WF_vars(TimerFire(c)) /\ WF_vars(Select(c))

\* The steps of a run whose random source may return a name it returned
\* before (rand.Read may fill the buffer with any 8 bytes), the environment
\* variables staying empty, sql.Open succeeding and the connection closes
\* returning no error.
AnyNameNext ==
    \/ \E c \in Solo, name \in randomSchemaName : NewCall(c, name, TRUE)
    \/ \E c \in Solo : CreateDone(c)
    \/ \E c \in Solo : CreateTimeout(c)
    \/ \E c \in Solo : CleanupDone(c)
    \/ \E c \in Solo : CleanupTimeout(c)
    \/ \E c \in Solo, h \in 1..Len(handles) : CloseCall(c, h)
    \/ \E c \in Solo : DropDone(c)
    \/ \E c \in Solo : DropTimeout(c)
    \/ \E c \in Solo : CloseDone(c)
    \/ \E c \in Solo : CloseTimeout(c)
    \/ \E c \in Solo : TimerFire(c)
    \/ \E t \in Running, fail \in BOOLEAN : ExecCreate(t, fail)
    \/ \E t \in Running, fail \in BOOLEAN : ExecDrop(t, fail)
    \/ \E t \in Running : ExecClose(t, FALSE)
    \/ \E t \in Running : ExecCleanup(t, FALSE)

AnyNameSpec == Init /\ [][AnyNameNext]_vars

\* The steps of a run of two test goroutines, each making its calls one
\* after the other and closing the handles New returned to it, the random
\* source never repeating a name, the environment variables staying empty,
\* sql.Open succeeding and the connection closes returning no error.
PairNext ==
    \/ \E c \in Callers, name \in randomSchemaName \ drawn :
          NewCall(c, name, TRUE)
    \/ \E c \in Callers : CreateDone(c)
    \/ \E c \in Callers : CreateTimeout(c)
    \/ \E c \in Callers : CleanupDone(c)
    \/ \E c \in Callers : CleanupTimeout(c)
    \/ \E c \in Callers, h \in 1..Len(handles) : CloseCall(c, h)
    \/ \E c \in Callers : DropDone(c)
    \/ \E c \in Callers : DropTimeout(c)
    \/ \E c \in Callers : CloseDone(c)
    \/ \E c \in Callers : CloseTimeout(c)
    \/ \E c \in Callers : TimerFire(c)
    \/ \E t \in Running, fail \in BOOLEAN : ExecCreate(t, fail)
    \/ \E t \in Running, fail \in BOOLEAN : ExecDrop(t, fail)
    \/ \E t \in Running : ExecClose(t, FALSE)
    \/ \E t \in Running : ExecCleanup(t, FALSE)

PairSpec == Init /\ [][PairNext]_vars

\* The steps of a run of one test goroutine that may also replace the field
\* DB of a handle with nil, the random source never repeating a name.
NilNext ==
    \/ \E c \in Solo, e \in Envs : SetEnv(c, e)
    \/ \E c \in Solo, name \in randomSchemaName \ drawn, openOk \in BOOLEAN :
          NewCall(c, name, openOk)
    \/ \E c \in Solo : CreateDone(c)
    \/ \E c \in Solo : CreateTimeout(c)
    \/ \E c \in Solo : CleanupDone(c)
    \/ \E c \in Solo : CleanupTimeout(c)
    \/ \E c \in Solo, h \in 1..Len(handles) : CloseCall(c, h)
    \/ \E c \in Solo, h \in 1..Len(handles) : ReplaceDB(c, h)
    \/ \E c \in Solo : DropDone(c)
    \/ \E c \in Solo : DropTimeout(c)
    \/ \E c \in Solo : CloseDone(c)
    \/ \E c \in Solo : CloseTimeout(c)
    \/ \E c \in Solo : TimerFire(c)
    \/ \E t \in Running, fail \in BOOLEAN : ExecCreate(t, fail)
    \/ \E t \in Running, fail \in BOOLEAN : ExecDrop(t, fail)
    \/ \E t \in Running, fail \in BOOLEAN : ExecClose(t, fail)
    \/ \E t \in Running, fail \in BOOLEAN : ExecCleanup(t, fail)

NilSpec == Init /\ [][NilNext]_vars

\* ------------------------------------------------------------------- claims
\* A call of caller c returns in this step.
Returns(c) == ret'[c].call # ret[c].call

\* The environment the call caller c is in, or now makes, was made in.
EnvAtCall(c) == IF pc[c] = "idle" THEN env ELSE loc[c].env

\* The schema of the handle the last call of c was about.
SchemaOf(r) == handles[r.h].schema

\* C1: when a Close called with PGTESTKEEPDB empty returns nil, the schema of
\* its handle is not in the server's catalog at that moment.
C1_CloseRemovesSchema ==
    [][\A c \in Callers :
          (Returns(c) /\ ret'[c].op = "Close" /\ ret'[c].err = Nil
             /\ ~EnvAtCall(c).keep)
          => SchemaOf(ret'[c]) \notin schemas']_vars

C1_Witness ==
    \E c \in Callers :
        /\ pc[c] = "idle" /\ ret[c].op = "Close" /\ ret[c].err = Nil
        /\ ret[c].line = 131
        /\ SchemaOf(ret[c]) \notin schemas

\* The call of c that returns in this step is a Close, called with
\* PGTESTKEEPDB empty, that follows a fully successful Close (one that
\* dropped the schema and closed the connection) of the same handle.
SecondClose(c) ==
    /\ Returns(c)
    /\ ret'[c].op = "Close"
    /\ ~EnvAtCall(c).keep
    /\ ret[c].op = "Close" /\ ret[c].h = ret'[c].h
    /\ ret[c].line = 131 /\ ret[c].err = Nil

\* The errors of a DROP that ran on a closed connection, or ran too long.
DropOnClosed(s) ==
    {Notef(ErrDBClosed, Msg("cannot", "drop test schema", s)),
     TimeoutResult(WhatDrop(s))}

NewFails(c) ==
    /\ Returns(c)
    /\ pc[c] \in {"create", "cleanup"}
    /\ ret'[c].err # Nil

\* The error is a timeout error of runWithTimeout.
TimedOut(err) == err # Nil /\ err[1].msg = "timed out trying to"

\* The creation error New is handling when it returns from pc[c].
CreateErr(c) == IF pc[c] = "cleanup" THEN loc[c].err ELSE ret'[c].err

\* The error New's cleanup runWithTimeout returned, when New returns with
\* it at line 86.
CleanupErr(c) == Tail(ret'[c].err)

\* C3 as stated: when New returns an error, it returns no handle, the server
\* holds no schema created by the call, and the connection the call opened
\* is closed.
C3_FailedNewLeavesNothing ==
    [][\A c \in Callers :
          /\ (Returns(c) /\ ret'[c].op = "New" /\ ret'[c].line = 73) =>
                /\ ret'[c].h = 0
                /\ UNCHANGED <<handles, schemas, conns, tasks, issued>>
          /\ NewFails(c) =>
                /\ ret'[c].h = 0 /\ handles' = handles
                /\ loc[c].name \notin schemas'
                /\ conns'[loc[c].db] = "closed"]_vars

\* C3 amended: when New returns an error it returns no handle; when sql.Open
\* failed nothing was opened or issued; the server holds no schema created by
\* the call unless CREATE SCHEMA timed out (its statement is left running);
\* and the connection is closed unless the cleanup close timed out.
C3_FailedNewBestEffort ==
    [][\A c \in Callers :
          /\ (Returns(c) /\ ret'[c].op = "New" /\ ret'[c].line = 73) =>
                /\ ret'[c].h = 0
                /\ UNCHANGED <<handles, schemas, conns, tasks, issued>>
          /\ NewFails(c) =>
                /\ ret'[c].h = 0 /\ handles' = handles
                /\ pc[c] = "cleanup"
                /\ ~TimedOut(CreateErr(c)) => loc[c].name \notin schemas'
                /\ ~TimedOut(CleanupErr(c)) => conns'[loc[c].db] = "closed"]_vars

\* New returned an error after CREATE SCHEMA failed and the cleanup close
\* completed, with no schema left and the connection closed.
C3_Witness ==
    \E c \in Callers :
        /\ pc[c] = "idle" /\ ret[c].op = "New" /\ ret[c].line = 86
        /\ ret[c].err[2].msg = "cannot" /\ ret[c].err[3].msg = "cannot"
        /\ schemas = {} /\ handles = <<>>
        /\ Len(conns) = 1 /\ conns[1] = "closed"

\* The DROP of a schema has been started.
DropIssued(s) == \E i \in issued : i.kind = "drop" /\ i.schema = s

\* C10 as stated: while the connection field of a handle is non-nil, its
\* schema exists on the server.
C10_OpenHandleHasSchema ==
    \A h \in 1..Len(handles) :
        handles[h].DB # 0 => handles[h].schema \in schemas

\* C10 amended: the connection field of a handle stays non-nil (Close never
\* nulls it), and its schema exists on the server as long as no Close call
\* has started a DROP of it.
C10_HandleHasSchemaUntilDrop ==
    \A h \in 1..Len(handles) :
        /\ handles[h].DB # 0
        /\ ~DropIssued(handles[h].schema) => handles[h].schema \in schemas

\* A handle that went through a retained Close still has its schema.
C10_Witness ==
    \E c \in Callers :
        /\ pc[c] = "idle" /\ ret[c].op = "Close" /\ ret[c].line = 109
        /\ handles[ret[c].h].DB # 0
        /\ ~DropIssued(SchemaOf(ret[c]))
        /\ SchemaOf(ret[c]) \in schemas

\* C4: every call of New and of Close returns, whatever the server does with
\* the statements and closes, the timers firing.
C4_CallsReturn == \A c \in Callers : (pc[c] # "idle") ~> (pc[c] = "idle")

\* A Close returned although neither its DROP nor any earlier statement
\* ever finished.
C4_Witness ==
    \E c \in Callers :
        /\ pc[c] = "idle" /\ ret[c].op = "Close" /\ TimedOut(ret[c].err)
        /\ \E t \in BagToSet(tasks) : t.kind = "drop" /\ t.pc = "run"

\* The goroutine caller c waits for.
TheTask(c) == CHOOSE t \in Waited(c) : TRUE

\* C5: when the select of Close's DROP is resolved while the DROP is still
\* blocked, the timer has fired and Close returns "timed out trying to drop
\* test schema <name>", not success, leaving the connection field non-nil;
\* and it returns that error only once the timer has fired.
C5_BlockedDropTimesOut ==
    [][\A c \in Callers :
          /\ (pc[c] = "drop" /\ pc'[c] # "drop" /\ TheTask(c).pc = "run") =>
                /\ timer[c] = "fired"
                /\ Returns(c)
                /\ ret'[c].err =
                      Newf(Msg("timed out trying to", "drop test schema",
                               handles[loc[c].h].schema))
                /\ handles'[loc[c].h].DB # 0
          /\ (Returns(c) /\ ret'[c].op = "Close" /\ TimedOut(ret'[c].err)) =>
                timer[c] = "fired"]_vars

C5_Witness ==
    \E c \in Callers :
        /\ pc[c] = "idle" /\ ret[c].op = "Close" /\ ret[c].line = 120
        /\ ret[c].err = Newf(Msg("timed out trying to", "drop test schema",
                                 SchemaOf(ret[c])))
        /\ \E t \in BagToSet(tasks) :
              t.kind = "drop" /\ t.pc = "run" /\ t.rcv = Nobody
        /\ handles[ret[c].h].DB # 0

\* The connection close of Close is started for caller c in this step.
CloseIssued(c) ==
    \E t \in BagToSet(tasks') :
        t.kind = "close" /\ t.pc = "run" /\ t.rcv = c /\ t \notin BagToSet(tasks)

\* The DROP caller c waits for has completed without error.
DropSucceeded(c) ==
    pc[c] = "drop" /\ TheTask(c).pc = "send" /\ TheTask(c).out = Nil

\* C6: when the DROP of a Close has failed or the select takes the timer
\* case, the Close returns that error in the same step, starts no connection
\* close, and leaves the connection as it was and the field non-nil; a
\* connection close is started only by a Close whose DROP has completed
\* without error.
C6_NoCloseAfterFailedDrop ==
    [][\A c \in Callers :
          /\ (pc[c] = "drop" /\ pc'[c] # "drop"
                /\ (~DropSucceeded(c) \/ ~CloseIssued(c))) =>
                /\ Returns(c)
                /\ ret'[c].err # Nil
                /\ ret'[c].err[1].what = "drop test schema"
                /\ ~CloseIssued(c)
                /\ issued' = issued
                /\ conns' = conns
                /\ handles'[loc[c].h].DB # 0
          /\ CloseIssued(c) => DropSucceeded(c)]_vars

\* A Close returned the error of its failed DROP; no close was ever started
\* on its connection, which is open.
C6_Witness ==
    \E c \in Callers :
        /\ pc[c] = "idle" /\ ret[c].op = "Close" /\ ret[c].line = 120
        /\ ret[c].err = Notef(ErrPq, Msg("cannot", "drop test schema",
                                         SchemaOf(ret[c])))
        /\ ~\E i \in issued : i.kind = "close"
        /\ conns[handles[ret[c].h].DB] = "open"
        /\ handles[ret[c].h].DB # 0

\* Caller c calls New in this step.
CallsNew(c) ==
    /\ pc[c] = "idle"
    /\ pc'[c] = "create" \/ (Returns(c) /\ ret'[c].op = "New")

\* Caller c calls Close in this step.
CallsClose(c) ==
    /\ pc[c] = "idle"
    /\ pc'[c] = "drop" \/ (Returns(c) /\ ret'[c].op = "Close")

\* C7: a New called while PGTESTDISABLE is non-empty returns ErrDisabled and
\* no handle at once, and opens, issues, starts and changes nothing.
C7_DisabledShortCircuit ==
    [][\A c \in Callers :
          (CallsNew(c) /\ env.disable) =>
             /\ Returns(c)
             /\ ret'[c].err = ErrDisabled
             /\ ret'[c].h = 0
             /\ UNCHANGED <<conns, issued, tasks, blocked, schemas, handles,
                            drawn, stderr>>]_vars

C7_Witness ==
    \E c \in Callers :
        /\ pc[c] = "idle" /\ env.disable
        /\ ret[c].op = "New" /\ ret[c].err = ErrDisabled /\ ret[c].h = 0
        /\ ret[c].prev.op = "New" /\ ret[c].prev.ok

\* C8: a Close called while PGTESTKEEPDB is non-empty returns nil at once,
\* prints the schema name, starts no DROP, no close and no goroutine, and
\* leaves the catalog, the connections and the handle as they were, the
\* connection field non-nil.
C8_RetentionPath ==
    [][\A c \in Callers :
          (CallsClose(c) /\ env.keep) =>
             /\ Returns(c)
             /\ ret'[c].err = Nil
             /\ stderr' = Append(stderr, SchemaOf(ret'[c]))
             /\ UNCHANGED <<conns, issued, tasks, blocked, schemas, handles>>
             /\ handles[ret'[c].h].DB # 0]_vars

\* A retained Close of a handle whose schema exists and whose connection is
\* open, PGTESTKEEPDB having been empty when New returned it.
C8_Witness ==
    \E c \in Callers :
        /\ pc[c] = "idle" /\ env.keep
        /\ ret[c].op = "Close" /\ ret[c].err = Nil /\ ret[c].line = 109
        /\ ret[c].prev.op = "New"
        /\ SchemaOf(ret[c]) \in schemas
        /\ conns[handles[ret[c].h].DB] = "open"
        /\ stderr = <<SchemaOf(ret[c])>>
        /\ issued = {[kind |-> "create", conn |-> handles[ret[c].h].DB,
                      schema |-> SchemaOf(ret[c])]}

\* C9: when CREATE SCHEMA failed or timed out and the cleanup close
\* completed without error within its deadline, New returns the creation
\* error, which reports no failure of the close.
C9_CreationErrorPreferred ==
    [][\A c \in Callers :
          (pc[c] = "cleanup" /\ Returns(c)
             /\ TheTask(c).pc = "send" /\ TheTask(c).out = Nil
             /\ TheTask(c) \notin BagToSet(tasks'))
          => ret'[c].err = Notef(loc[c].err, MsgCannotCreate(loc[c].name))]_vars

\* The select of caller c is resolved in this step: runWithTimeout returns.
Resolved(c) == pc[c] # "idle" /\ pc'[c] # pc[c]

\* The argument what of the runWithTimeout caller c is in.
WhatOf(c) ==
    CASE pc[c] = "create"  -> WhatCreate
      [] pc[c] = "cleanup" -> WhatCleanup
      [] pc[c] = "drop"    -> WhatDrop(handles[loc[c].h].schema)
      [] pc[c] = "close"   -> WhatClose

\* What the runWithTimeout of caller c returns in this step, as what its
\* caller does with it shows: New keeps a creation error in err and goes on
\* to the cleanup, and returns a cleanup error under one more message; Close
\* returns the error as it is, and goes on to the close after a nil.
Result(c) ==
    CASE pc[c] = "create"  -> IF pc'[c] = "cleanup" THEN loc'[c].err ELSE Nil
      [] pc[c] = "cleanup" -> Tail(ret'[c].err)
      [] pc[c] = "drop"    -> IF pc'[c] = "close" THEN Nil ELSE ret'[c].err
      [] pc[c] = "close"   -> ret'[c].err

\* The goroutines caller c waits for, with their number.
WaitedBag(c) == [t \in Waited(c) |-> CopiesIn(t, tasks)]

\* C11: runWithTimeout returns either what the work sent, nil as nil and an
\* error under the message "cannot <what>", the work having signalled, or the
\* error "timed out trying to <what>" with no cause, the timer having fired;
\* it returns the former when the timer has not fired and the latter when the
\* work has not signalled.  The work is started once: a caller in
\* runWithTimeout waits for exactly one goroutine, and when runWithTimeout
\* returns no goroutine of the same kind is started in its place.
C11_ResultMapping ==
    [][\A c \in Callers :
          /\ pc[c] # "idle" => BagCardinality(WaitedBag(c)) = 1
          /\ Resolved(c) =>
               LET t == TheTask(c)
                   w == WhatOf(c)
                   sent == IF t.res = Nil THEN Nil
                           ELSE <<Msg("cannot", w.what, w.schema)>> \o t.res
                   late == <<Msg("timed out trying to", w.what, w.schema)>>
               IN  /\ \/ t.pc = "send" /\ Result(c) = sent
                      \/ timer[c] = "fired" /\ Result(c) = late
                   /\ timer[c] # "fired" => Result(c) = sent
                   /\ t.pc # "send" => Result(c) = late
                   /\ \A u \in BagToSet(tasks') :
                         u.rcv = c => u.kind # t.kind]_vars

\* A Close returned the error of its connection close under "cannot close
\* test db".
C11_Witness ==
    \E c \in Callers :
        /\ pc[c] = "idle" /\ ret[c].op = "Close" /\ ret[c].line = 128
        /\ ret[c].err = <<Msg("cannot", "close test db", "")>> \o ErrConnClose
        /\ ret[c].prev.op = "New" /\ ret[c].prev.ok

\* C12 as stated: no two handles returned by New have equal schema names.
C12_UniqueNames ==
    \A h1, h2 \in 1..Len(handles) :
        h1 # h2 => handles[h1].schema # handles[h2].schema

\* C12 amended: New does not check the name it drew, the server does: two
\* handles returned by New have equal schema names only when a Close has
\* started a DROP of the schema of that name.
C12_UniqueUntilDropped ==
    \A h1, h2 \in 1..Len(handles) :
        (h1 < h2 /\ handles[h1].schema = handles[h2].schema)
        => DropIssued(handles[h1].schema)

\* New returned a second handle with the name of the first, whose schema had
\* been dropped by its Close.
C12_Witness ==
    /\ Len(handles) = 2
    /\ handles[1].schema = handles[2].schema
    /\ handles[1].DB # handles[2].DB
    /\ handles[2].schema \in schemas
    /\ \E c \in Callers : pc[c] = "idle" /\ ret[c].op = "New" /\ ret[c].h = 2

\* Both cases of the select of caller c are ready: the goroutine is blocked
\* in its send and the timer has fired.
BothReady(c) == pc[c] # "idle" /\ DoneReady(c) # {} /\ timer[c] = "fired"

\* What the first case of c's select returns: what the goroutine sends, an
\* error under "cannot <what>".
SentOf(c) ==
    IF TheTask(c).res = Nil THEN Nil
    ELSE <<Msg("cannot", WhatOf(c).what, WhatOf(c).schema)>> \o TheTask(c).res

\* What the second case of c's select returns.
LateOf(c) == <<Msg("timed out trying to", WhatOf(c).what, WhatOf(c).schema)>>

\* C13 as stated: when the select is resolved with both cases ready,
\* runWithTimeout returns the work's result, never the timeout error.
C13_ResultTakesPrecedence ==
    [][\A c \in Callers :
          (BothReady(c) /\ Resolved(c)) => Result(c) = SentOf(c)]_vars

\* C13 amended: when the select is resolved with both cases ready, either
\* case is taken: runWithTimeout returns the work's result, or the timeout
\* error although the work has completed; in both cases what the work's
\* statement did stays done and nobody waits for its goroutine any more.
C13_EitherWhenBothReady ==
    [][\A c \in Callers :
          (BothReady(c) /\ Resolved(c)) =>
             /\ UNCHANGED <<schemas, conns>>
             /\ \/ Result(c) = SentOf(c) /\ timeouts' = timeouts
                \/ Result(c) = LateOf(c) /\ timeouts' = timeouts + 1
             /\ TheTask(c) \notin Waited(c)']_vars

\* The DROP of a Close has failed and its goroutine waits in its send, the
\* timer has fired, and the select is not resolved yet.
C13_Witness ==
    \E c \in Callers :
        /\ pc[c] = "drop" /\ BothReady(c)
        /\ TheTask(c).res = ErrPq

\* The goroutines left running by a runWithTimeout that has returned.
LeftRunning == [t \in {u \in BagToSet(tasks) : u.rcv = Nobody} |-> CopiesIn(t, tasks)]

\* The goroutines alive whose runWithTimeout has returned: left running
\* their statement, or blocked in their send.
Leaked == BagCardinality(LeftRunning) + blocked

\* C14: the goroutines alive after their runWithTimeout returned are at most
\* as many as the timeout errors runWithTimeout has returned; a goroutine
\* that is not one of them has a caller in runWithTimeout waiting for it; a
\* runWithTimeout that returns the timeout error leaves at most one goroutine
\* more, and one that returns what its work sent leaves none.
C14_LeakBound ==
    [][/\ Leaked <= timeouts
       /\ \A t \in BagToSet(tasks) :
             t.rcv # Nobody => pc[t.rcv] # "idle" /\ CopiesIn(t, tasks) = 1
       /\ \A c \in Callers :
             /\ pc[c] = "idle" => Waited(c) = {}
             /\ Resolved(c) =>
                  /\ TheTask(c) \notin Waited(c)'
                  /\ IF Result(c) = LateOf(c)
                     THEN Leaked' <= Leaked + 1 /\ timeouts' = timeouts + 1
                     ELSE Leaked' = Leaked /\ timeouts' = timeouts]_vars

\* A New whose CREATE SCHEMA and whose cleanup both timed out has returned,
\* and the two goroutines are left, one of them running.
C14_Witness ==
    \E c \in Callers :
        /\ pc[c] = "idle" /\ ret[c].op = "New" /\ ret[c].call = 1
        /\ timeouts = 2 /\ Leaked = 2 /\ blocked = 1

\* C15: a goroutine left behind by a timeout whose statement has finished
\* terminates: none stays blocked for ever in its send on done.
C15_AbandonedTerminates == blocked = 0

\* The error err has the error e as its cause: e is the end of its chain.
Wraps(err, e) ==
    /\ Len(err) >= Len(e)
    /\ SubSeq(err, Len(err) - Len(e) + 1, Len(err)) = e

\* The select of caller c takes its first case in this step: what the
\* goroutine sends is received before the deadline.
InTime(c) ==
    /\ Resolved(c)
    /\ TheTask(c).pc = "send"
    /\ Result(c) = SentOf(c)
    /\ blocked' = blocked

\* The error of the operation New or Close was waiting for, when it
\* completed before its deadline, and nil otherwise.
OpErr(c) == IF InTime(c) THEN TheTask(c).out ELSE Nil

\* The error of the CREATE SCHEMA of the New caller c is in, when it
\* completed before its deadline, and nil otherwise.
CreateOpErr(c) ==
    IF pc[c] = "cleanup" /\ ~TimedOut(loc[c].err) THEN Tail(loc[c].err) ELSE Nil

\* C16: when New or Close returns, the error of every operation of the call
\* that completed before its deadline (CREATE SCHEMA, the cleanup close, DROP
\* SCHEMA, the close) is the cause of the error returned; an error of the
\* cleanup close is in the error New returns.
C16_NoErrorSwallowed ==
    [][\A c \in Callers :
          /\ (Returns(c) /\ OpErr(c) # Nil) =>
                ret'[c].err # Nil /\ Wraps(ret'[c].err, OpErr(c))
          /\ (Returns(c) /\ CreateOpErr(c) # Nil) =>
                ret'[c].err # Nil /\ Wraps(ret'[c].err, CreateOpErr(c))
          /\ (InTime(c) /\ OpErr(c) # Nil /\ pc[c] # "create") => Returns(c)]_vars

\* A Close of caller c returns an error in this step.
CloseFails(c) == Returns(c) /\ ret'[c].op = "Close" /\ ret'[c].err # Nil

\* The connection of the handle a Close of c returns for.
ConnOf(c) == handles[ret'[c].h].DB

\* A close of connection i has been started.
CloseStarted(i) ==
    \E d \in issued : d.kind \in {"close", "cleanup"} /\ d.conn = i

\* C17 as stated: after a Close that returned an error the connection of its
\* handle is open and the schema of its handle exists, so that the DROP of a
\* repeated Close can succeed; and a nil connection field means a schema
\* dropped and a connection closed.
C17_RetryMeaningful ==
    [][\A c \in Callers :
          /\ CloseFails(c) =>
                /\ conns'[ConnOf(c)] = "open"
                /\ SchemaOf(ret'[c]) \in schemas'
          /\ \A h \in 1..Len(handles) :
                (handles'[h].DB = 0 /\ handles[h].DB # 0) =>
                   /\ handles[h].schema \notin schemas'
                   /\ conns'[handles[h].DB] = "closed"]_vars

\* C17 amended: Close never nulls the field.  A Close that returns the error
\* of its DROP (failed or timed out) has started no close and leaves the
\* connection as it was; when the DROP failed and the Close directly follows
\* the New of its handle, the schema exists and the connection is open.
\* A DROP that timed out is not cancelled, and may still drop the schema.
\* A Close that returns the error of
\* its connection close (failed or timed out) has dropped the schema and has
\* started the close; the next Close of the handle, called with PGTESTKEEPDB
\* empty, returns the error of its DROP.
C17_RetryOnlyAfterFailedDrop ==
    [][\A c \in Callers :
          /\ CloseFails(c) =>
                /\ handles'[ret'[c].h].DB # 0
                /\ pc[c] \in {"drop", "close"}
          /\ (CloseFails(c) /\ pc[c] = "drop") =>
                /\ conns' = conns
                /\ ~CloseIssued(c)
                /\ (InTime(c) /\ ret[c].op = "New" /\ ret[c].h = ret'[c].h) =>
                      /\ SchemaOf(ret'[c]) \in schemas'
                      /\ conns'[ConnOf(c)] = "open"
          /\ (CloseFails(c) /\ pc[c] = "close") =>
                /\ SchemaOf(ret'[c]) \notin schemas'
                /\ CloseStarted(ConnOf(c))
                /\ InTime(c) => conns'[ConnOf(c)] = "closed"
          /\ (Returns(c) /\ ret'[c].op = "Close" /\ ~EnvAtCall(c).keep
                /\ ret[c].op = "Close" /\ ret[c].h = ret'[c].h
                /\ ret[c].line = 128) =>
                /\ pc[c] = "drop"
                /\ ret'[c].err # Nil]_vars

\* A Close returned the timeout error of its connection close: the schema is
\* dropped, the connection still open, and the field non-nil.
C17_Witness ==
    \E c \in Callers :
        /\ pc[c] = "idle" /\ ret[c].op = "Close" /\ ret[c].line = 128
        /\ TimedOut(ret[c].err)
        /\ SchemaOf(ret[c]) \notin schemas
        /\ conns[handles[ret[c].h].DB] = "open"
        /\ handles[ret[c].h].DB # 0

\* The goroutines executing a statement or a close on connection i.
TasksOn(i) ==
    [t \in {u \in BagToSet(tasks) : u.conn = i /\ u.pc = "run"}
        |-> CopiesIn(t, tasks)]

\* The goroutines on connection i that a caller waits for.
AwaitedOn(i) ==
    [t \in {u \in BagToSet(tasks) : u.conn = i /\ u.rcv # Nobody}
        |-> CopiesIn(t, tasks)]

\* C18 as stated: at most one goroutine started by New or Close is executing
\* on a connection.
C18_OneTaskPerConnection ==
    \A i \in 1..Len(conns) : BagCardinality(TasksOn(i)) <= 1

\* C18 amended: at most one goroutine on a connection is waited for by a
\* caller; the others executing on it were left behind by timeouts, and New
\* and Close do start operations beside them, so that the goroutines
\* executing on a connection are at most one more than the timeouts so far.
C18_OneAwaitedPerConnection ==
    \A i \in 1..Len(conns) :
        /\ BagCardinality(AwaitedOn(i)) <= 1
        /\ BagCardinality(TasksOn(i)) <= 1 + timeouts
        /\ BagCardinality(TasksOn(i)) <=
              BagCardinality(AwaitedOn(i)) + BagCardinality(LeftRunning)

\* The DROP of a Close that timed out is still executing while the DROP of
\* the next Close of the handle executes on the same connection.
C18_Witness ==
    \E c \in Callers :
        /\ pc[c] = "drop"
        /\ \E t, u \in BagToSet(tasks) :
              /\ t.kind = "drop" /\ u.kind = "drop"
              /\ t.conn = u.conn /\ t.pc = "run" /\ u.pc = "run"
              /\ t.rcv = Nobody /\ u.rcv = c

\* The schema of handle h is in the catalog.
InCatalog(h) == handles[h].schema \in schemas

\* A goroutine started by a Close of handle h executes its statement or its
\* close in this step.
CloseStepOf(h) ==
    \E t \in Running :
        /\ t.kind \in {"drop", "close"}
        /\ t.conn = handles[h].DB /\ t.schema = handles[h].schema
        /\ CopiesIn(t, tasks') < CopiesIn(t, tasks)
        /\ pc' = pc

\* C19: with distinct schema names and two callers, a step of a Close of one
\* handle leaves the schema and the connection of every other handle as they
\* were; the schema of a handle leaves the catalog, and its connection is
\* closed, only in a step of a Close of that handle.
C19_Isolation ==
    [][\A g \in 1..Len(handles) :
          /\ \A h \in 1..Len(handles) :
                (h # g /\ CloseStepOf(h)) =>
                   /\ InCatalog(g)' = InCatalog(g)
                   /\ conns'[handles[g].DB] = conns[handles[g].DB]
          /\ (InCatalog(g)' # InCatalog(g)
                \/ conns'[handles[g].DB] # conns[handles[g].DB])
             => CloseStepOf(g)]_vars

\* Two callers hold a handle each; the Close of the first one has dropped
\* its schema and closed its connection, and the schema of the second is in
\* the catalog and its connection open.
C19_Witness ==
    /\ Len(handles) = 2 /\ owner = <<"t1", "t2">>
    /\ pc["t1"] = "idle" /\ ret["t1"].op = "Close" /\ ret["t1"].line = 131
    /\ ret["t1"].h = 1
    /\ ~InCatalog(1) /\ conns[handles[1].DB] = "closed"
    /\ InCatalog(2) /\ conns[handles[2].DB] = "open"
    /\ handles[1].schema # handles[2].schema

\* The handle the Close that caller c calls in this step is called on.
ClosedHandle(c) == IF pc'[c] = "drop" THEN loc'[c].h ELSE ret'[c].h

\* C20: a Close called on a handle whose field DB is nil returns nil at once
\* from the nil check, whatever PGTESTKEEPDB is: it starts no statement and
\* no goroutine, prints nothing, and leaves the catalog, the connections and
\* the handles as they were.
C20_NilHandleClose ==
    [][\A c \in Callers :
          (CallsClose(c) /\ handles[ClosedHandle(c)].DB = 0) =>
             /\ Returns(c)
             /\ ret'[c].err = Nil
             /\ ret'[c].line = 102
             /\ UNCHANGED <<schemas, conns, handles, tasks, blocked, issued,
                            stderr, timeouts, env, drawn>>]_vars

\* A Close of a handle whose field DB is nil returned nil with PGTESTKEEPDB
\* non-empty; nothing was printed, and the schema of the handle is still in
\* the catalog and its connection open.
C20_Witness ==
    \E c \in Callers :
        /\ pc[c] = "idle" /\ env.keep
        /\ ret[c].op = "Close" /\ ret[c].line = 102 /\ ret[c].err = Nil
        /\ handles[ret[c].h].DB = 0
        /\ stderr = <<>>
        /\ SchemaOf(ret[c]) \in schemas
        /\ \E i \in 1..Len(conns) : conns[i] = "open"

====
